---- MODULE Spec2Model ----
(***************************************************************************)
(* Request pipeline of the task tracker: identity check, rate limiting,    *)
(* read-through / invalidate-on-write cache, owner-scoped persistence and  *)
(* the archival sweep.  Strings that take part in key construction and in  *)
(* the KEYS glob are sequences of one-character strings, so that key       *)
(* building and pattern matching are computed character by character.      *)
(***************************************************************************)
EXTENDS Integers, Sequences, FiniteSets, TLC

(* ------------------------------ bounds --------------------------------- *)
\* requests started in one behaviour
MaxRequests == 3
\* requests started in one behaviour of the workload with every kind of request
MaxWideRequests == 2
\* clock ticks in one behaviour, and the seconds one tick advances the clock
MaxTicks == 1
\* longest origin argument and longest CORS_ORIGINS value, in characters
MaxOriginLen == 2
MaxEnvLen == 3
\* addLog calls and log clearings in one behaviour
MaxLogCalls == 3
\* longest client address, in characters
MaxIpLen == 4
\* logout requests of one identifier key inside one window
MaxLogouts == 11
TickSec == 60

(* ------------------------- program constants --------------------------- *)
TTL == 60
WindowSec == 60
ReadLimit == 60
WriteLimit == 20
AuthLimit == 10
FallbackLimit == 60
FallbackRemaining == 59
ArchiveDays == 30
DaySec == 86400
TitleMax == 120
DescriptionMax == 2000

(* ------------------------------ strings -------------------------------- *)
Colon == <<":">>
Star == <<"*">>
S_tasks == <<"t", "a", "s", "k", "s">>
S_task == <<"t", "a", "s", "k">>
S_rl_read == <<"r", "l", ":", "r", "e", "a", "d">>
S_rl_write == <<"r", "l", ":", "w", "r", "i", "t", "e">>
S_rl_auth == <<"r", "l", ":", "a", "u", "t", "h">>

\* identities issued by the identity provider; NoUser is the absent user
U1 == <<"u", "1">>
U2 == <<"u", "2">>
Users == {U1, U2}
NoUser == <<>>
\* task ids: those the store generates, in generation order
T1 == <<"a">>
T2 == <<"b">>
T3 == <<"c">>
TaskIds == {T1, T2, T3}
IdOrder == <<T1, T2, T3>>
\* client addresses as sent in x-forwarded-for
IP1 == <<"9">>
IPs == {IP1}
Threads == {1, 2}

None == [k |-> "null"]

RECURSIVE GlobMatch(_, _)
\* Redis KEYS glob restricted to literals and '*'
GlobMatch(p, s) ==
  IF p = <<>> THEN s = <<>>
  ELSE IF Head(p) = "*"
       THEN GlobMatch(Tail(p), s) \/ (s # <<>> /\ GlobMatch(p, Tail(s)))
       ELSE s # <<>> /\ Head(s) = Head(p) /\ GlobMatch(Tail(p), Tail(s))

(* ---------------------------- cache keys ------------------------------- *)
getUserTasksKey(userId) == S_tasks \o Colon \o userId

\* a single-task key that leaves the owner out
TaskKeyWithoutOwner(userId, taskId) == S_task \o Colon \o taskId

getUserTaskKey(userId, taskId) == S_task \o Colon \o userId \o Colon \o taskId

\* a pattern that matches the task-list key of the owner only
ListKeysPattern(userId) == S_tasks \o Colon \o userId \o Star

\* the glob of invalidateUserCache
UserCachePattern(userId) == Star \o Colon \o userId \o Star

(* --------------------------- rate limit keys --------------------------- *)
createRateLimitKey(userId, ip) ==
  IF userId # NoUser THEN userId \o Colon \o ip ELSE ip

LimiterPrefix(kind) ==
  CASE kind = "read" -> S_rl_read
    [] kind = "write" -> S_rl_write
    [] kind = "auth" -> S_rl_auth

LimiterTokens(kind) ==
  CASE kind = "read" -> ReadLimit
    [] kind = "write" -> WriteLimit
    [] kind = "auth" -> AuthLimit

LimiterKey(kind, identifier) == LimiterPrefix(kind) \o Colon \o identifier

(* ------------------------------- state --------------------------------- *)
VARIABLES
  cfg,        \* deployment (ratelimit module built, NODE_ENV) and workload
  now,        \* wall clock, seconds
  ticks,      \* clock ticks taken
  store,      \* the key-value store shared by cache and rate limiter: key -> [val, exp]
  db,         \* the tasks table: set of rows
  idSeq,      \* number of task ids generated so far
  th,         \* one record per request slot: the handler's locals and position
  started,    \* requests started
  uver,       \* per owner: number of committed writes of that owner's requests
  ackVer,     \* per owner: highest write version already answered 2xx
  rlCalls,    \* per limiter key: times (ms) of the allowed checkRateLimit calls
  hist,       \* per owner: the last two completed requests, newest first
  swept,      \* an archival sweep has changed a row
  cors,       \* the last call of getCORSHeaders: its argument and its result
  edge,       \* the perimeter's answer to the last request it saw
  logs,      \* Logger.logs: the in-memory buffer, oldest entry first
  logged,    \* the entries appended since the last clear, and the addLog calls made
  rlKey,     \* the last call of createRateLimitKey: its arguments and its result
  signout,   \* logout requests: per identifier key the times (ms) of the sign-outs, and the last redirect
  resp        \* the response sent by the last step, if it sent one

vars == <<cfg, signout, rlKey, logged, logs, edge, now, ticks, store, db, idSeq, th,
          started,          uver, ackVer, rlCalls,
          hist, swept, cors, resp>>

NowMs == now * 1000

CeilDiv(a, b) == IF a % b = 0 THEN a \div b ELSE (a \div b) + 1

Max(a, b) == IF a >= b THEN a ELSE b

\* task ids the store generates: one character per id
IdChars == <<"a", "b", "c", "d", "e", "f", "g", "h", "i">>
GenId(n) == <<IdChars[n]>>

(* ------------------------- key-value store ----------------------------- *)
\* keys whose expiry has not passed at time t (seconds)
LiveKeys(s, t) == {k \in DOMAIN s : s[k].exp > t}

Restrict(s, ks) == [k \in ks |-> s[k]]

\* redis.get: the value, or null (None) when absent or expired
RedisGet(s, key) == IF key \in LiveKeys(s, now) THEN s[key].val ELSE None

\* redis.setex
RedisSetex(s, key, ttl, value) ==
  [k \in (DOMAIN s) \cup {key} |->
     IF k = key THEN [val |-> value, exp |-> now + ttl] ELSE s[k]]

\* redis.keys(pattern)
RedisKeys(s, pattern) == {k \in LiveKeys(s, now) : GlobMatch(pattern, k)}

\* redis.del(...keys)
RedisDel(s, ks) == Restrict(s, (DOMAIN s) \ ks)

(* --------------------------- CacheService ------------------------------ *)
\* an exception that leaves a call
Thrown == [k |-> "throw"]

\* CacheService.get without its try/catch
CacheGetRethrows(s, key, fault) == IF fault THEN Thrown ELSE RedisGet(s, key)

\* CacheService.get: a backend error is caught and answered null
CacheGet(s, key, fault) == IF fault THEN None ELSE RedisGet(s, key)

\* CacheService.set: a backend error is caught, the store is left as it was
CacheSet(s, key, value, fault) ==
  IF fault THEN s ELSE RedisSetex(s, key, TTL, value)

\* CacheService.invalidatePattern, first await: the keys matching the pattern
InvalidateScan(s, pattern, fault) == IF fault THEN {} ELSE RedisKeys(s, pattern)

\* CacheService.invalidatePattern, second await: delete the scanned keys
InvalidateDel(s, ks, fault) == IF fault \/ ks = {} THEN s ELSE RedisDel(s, ks)

\* an invalidation that names the task-list key and nothing else
ListKeyOnly(userId) == getUserTasksKey(userId)

\* the pattern CacheService.invalidateUserCache hands to invalidatePattern
invalidateUserCache(userId) == UserCachePattern(userId)

(* ---------------------------- rate limiter ----------------------------- *)
\* times of the log that lie in the trailing window ending at t (ms)
InWindow(log, t) ==
  LET Recent(x) == x > t - WindowSec * 1000
  IN SelectSeq(log, Recent)

LimiterLog(s, key) ==
  IF RedisGet(s, key) = None THEN <<>> ELSE InWindow(RedisGet(s, key).log, NowMs)

\* Ratelimit.limit of a sliding window limiter: the decision
LimitResult(s, kind, identifier) ==
  LET log == LimiterLog(s, LimiterKey(kind, identifier))
      n == LimiterTokens(kind)
  IN IF Len(log) >= n
     THEN [success |-> FALSE, limit |-> n, remaining |-> 0,
           reset |-> Head(log) + WindowSec * 1000]
     ELSE [success |-> TRUE, limit |-> n, remaining |-> n - Len(log) - 1,
           reset |-> NowMs + WindowSec * 1000]

\* Ratelimit.limit: the store after the call
LimitStore(s, kind, identifier) ==
  LET key == LimiterKey(kind, identifier)
      log == LimiterLog(s, key)
  IN IF Len(log) >= LimiterTokens(kind) THEN s
     ELSE [k \in (DOMAIN s) \cup {key} |->
             IF k = key
             THEN [val |-> [k |-> "log", log |-> Append(log, NowMs)],
                   exp |-> now + WindowSec]
             ELSE s[k]]

\* the result checkRateLimit returns when the limiter call throws, and the
\* only result of the module that bypasses the limiter; line is the console line
FallbackResult(line) ==
  [success |-> TRUE, limit |-> FallbackLimit, remaining |-> FallbackRemaining,
   reset |-> NowMs + 60000, retryAfter |-> None, log |-> line]

\* the limiter wrapper that refuses the request when the backend fails
checkRateLimitFailClosed(s, kind, identifier, fault) ==
  IF fault
  THEN [FallbackResult("error: Rate limit check error") EXCEPT
          !.success = FALSE, !.retryAfter = [k |-> "number", n |-> 60]]
  ELSE LET r == LimitResult(s, kind, identifier)
       IN [success |-> r.success, limit |-> r.limit, remaining |-> r.remaining,
           reset |-> r.reset, log |-> "",
           retryAfter |-> IF r.success THEN None
                          ELSE [k |-> "number", n |-> CeilDiv(r.reset - NowMs, 1000)]]

\* checkRateLimit of the module backed by the store
checkRateLimitReal(s, kind, identifier, fault) ==
  IF fault THEN FallbackResult("error: Rate limit check error")
  ELSE LET r == LimitResult(s, kind, identifier)
       IN [success |-> r.success, limit |-> r.limit, remaining |-> r.remaining,
           reset |-> r.reset, log |-> "",
           retryAfter |-> IF r.success THEN None
                          ELSE [k |-> "number",
                                n |-> CeilDiv(r.reset - NowMs, 1000)]]

\* checkRateLimit of the module that bypasses the limiter
checkRateLimitBypass(s, kind, identifier, fault) ==
  FallbackResult("log: Rate limit bypassed for")

checkRateLimit(s, kind, identifier, fault) ==
  IF cfg.rlBuild = "bypass" THEN checkRateLimitBypass(s, kind, identifier, fault)
  ELSE checkRateLimitReal(s, kind, identifier, fault)

\* the store after checkRateLimit
checkRateLimitStore(s, kind, identifier, fault) ==
  IF cfg.rlBuild = "bypass" \/ fault THEN s ELSE LimitStore(s, kind, identifier)

(* ----------------------------- validation ------------------------------ *)
\* JSON values of a request body; a string is the value it denotes and its length
JStr(tag, n) == [k |-> "string", s |-> tag, len |-> n]
JNum == [k |-> "number"]
JObject(fields) == [k |-> "object", f |-> fields]
\* a body request.json() cannot parse, and a JSON value that is no object
Malformed == [k |-> "malformed"]
NonObject == [k |-> "array"]

SchemaFields == {"title", "description", "status", "due_date"}
StatusEnum == {"todo", "in_progress", "done", "archived"}

\* a title check whose upper bound is exclusive
ValidTitleExclusive(v) == v.k = "string" /\ v.len >= 1 /\ v.len < TitleMax

ValidTitle(v) == v.k = "string" /\ v.len >= 1 /\ v.len <= TitleMax
ValidDescription(v) == v.k = "string" /\ v.len <= DescriptionMax
ValidStatus(v) == v.k = "string" /\ v.s \in StatusEnum
ValidDueDate(v) == v.k \in {"string", "date"}

\* the field checks of a schema declared without .strict()
OptionalFieldsLoose(f) ==
  /\ "description" \in DOMAIN f => ValidDescription(f["description"])
  /\ "due_date" \in DOMAIN f => ValidDueDate(f["due_date"])

\* the optional fields of both schemas, and .strict()
OptionalFieldsOk(f) ==
  /\ DOMAIN f \subseteq SchemaFields
  /\ "description" \in DOMAIN f => ValidDescription(f["description"])
  /\ "due_date" \in DOMAIN f => ValidDueDate(f["due_date"])

\* TaskCreateSchema.safeParse(body).success
TaskCreateSchema(b) ==
  /\ b.k = "object"
  /\ OptionalFieldsOk(b.f)
  /\ "title" \in DOMAIN b.f /\ ValidTitle(b.f["title"])
  /\ "status" \in DOMAIN b.f /\ ValidStatus(b.f["status"])

\* TaskUpdateSchema.safeParse(body).success
TaskUpdateSchema(b) ==
  /\ b.k = "object"
  /\ OptionalFieldsOk(b.f)
  /\ "title" \in DOMAIN b.f => ValidTitle(b.f["title"])
  /\ "status" \in DOMAIN b.f => ValidStatus(b.f["status"])

(* ----------------------------- persistence ----------------------------- *)
\* row level security: a client bound to uid sees and changes only uid's rows
RLS(uid, row) == row.user_id = uid

\* supabase.from("tasks").select("*")
DbSelectAll(uid) == {row \in db : RLS(uid, row)}

\* .eq("id", id) under the caller's session
DbMatch(uid, id) == {row \in db : RLS(uid, row) /\ row.id = id}

\* a column of the validated data, or the value the database supplies
FieldOr(b, name, default) == IF name \in DOMAIN b.f THEN b.f[name].s ELSE default

\* the row POST inserts: {...validationResult.data, user_id: user.id}; id and
\* the timestamps default in the database
NewRow(uid, b) ==
  [id |-> FieldOr(b, "id", GenId(idSeq + 1)), user_id |-> uid,
   title |-> b.f["title"].s, status |-> b.f["status"].s,
   created_at |-> FieldOr(b, "created_at", now), updated_at |-> now]

\* the row after .update(validationResult.data); updated_at is refreshed
UpdatedRow(row, b) ==
  [row EXCEPT !.id = FieldOr(b, "id", @),
              !.user_id = FieldOr(b, "user_id", @),
              !.created_at = FieldOr(b, "created_at", @),
              !.title = FieldOr(b, "title", @),
              !.status = FieldOr(b, "status", @),
              !.updated_at = now]

DbUpdate(uid, id, b) ==
  (db \ DbMatch(uid, id)) \cup {UpdatedRow(row, b) : row \in DbMatch(uid, id)}

DbDelete(uid, id) == db \ DbMatch(uid, id)

\* the archival sweep's cutoff and predicate (service role: no row filter)
Cutoff == now - ArchiveDays * DaySec
\* a predicate that also takes a row updated exactly at the cutoff
ArchivableInclusive == {row \in db : row.status = "done" /\ row.updated_at <= Cutoff}
Archivable == {row \in db : row.status = "done" /\ row.updated_at < Cutoff}
\* an update that writes nothing
ArchivedRowUntouched(row) == row
ArchivedRow(row) == [row EXCEPT !.status = "archived", !.updated_at = now]
DbArchive == (db \ Archivable) \cup {ArchivedRow(row) : row \in Archivable}

(* ------------------------------ requests ------------------------------- *)
ReadOps == {"LIST", "GET"}
WriteOps == {"CREATE", "PUT", "DELETE"}
Ops == ReadOps \cup WriteOps

NoBody == [k |-> "none"]

\* a request slot that runs no handler
Idle ==
  [pc |-> "idle", op |-> "LIST", user |-> NoUser, ip |-> IP1, id |-> T1,
   body |-> NoBody, rl |-> None, keys |-> {}, payload |-> None, status |-> 0,
   cached |-> FALSE, trace |-> <<>>, faults |-> {}, rlPrior |-> -1,
   rlOps |-> 0, cacheOps |-> 0, dbOps |-> 0, found |-> FALSE, wrote |-> FALSE, invalidated |-> FALSE,
   bearer |-> FALSE, json |-> <<>>, dbError |-> "",
   deleted |-> {}, headers |-> {}, fields |-> {}, wver |-> 0, ackAtStart |-> 0, hitVer |-> 0, getAt |-> 0,
   setAt |-> -1]

\* no response was sent by the last step
NoResp == [Idle EXCEPT !.pc = "none"]

InFlight == {t \in Threads : th[t].pc # "idle"}
FreeThreads == Threads \ InFlight
\* the slot a new request takes: the lowest free one
NextSlot == CHOOSE t \in FreeThreads : \A u \in FreeThreads : t <= u

\* the backend calls that may fail in this deployment
CacheFaults == {"cacheget", "cacheset", "invscan", "invdel"}
FaultStages == {"rl", "db", "archive"} \cup CacheFaults
FaultChoices(stage) == IF stage \in cfg.faults THEN BOOLEAN ELSE {FALSE}
\* error.message of a failed database call
DbError1 == "e1"
DbError2 == "e2"
ErrorChoices(fault) == IF fault THEN cfg.dbErrors ELSE {""}

LimiterOf(op) == IF op \in ReadOps THEN "read" ELSE "write"

CacheKeyOf(r) ==
  IF r.op = "LIST" THEN getUserTasksKey(r.user) ELSE getUserTaskKey(r.user, r.id)

\* the rows of a cached or fresh payload, without the version it was read at
Data(p) ==
  CASE p.k = "list" -> p.rows
    [] p.k = "task" -> {p.row}
    [] OTHER -> {}

\* the headers of a 429: the collection routes send four, the /[id] routes
\* send no X-RateLimit-Reset
RateLimitedHeaders(op) ==
  {"Retry-After", "X-RateLimit-Limit", "X-RateLimit-Remaining"}
    \cup (IF op \in {"LIST", "CREATE"} THEN {"X-RateLimit-Reset"} ELSE {})

\* the headers the handler of r sets on a response with this status
ResponseHeaders(r, code) ==
  CASE code = 429 -> RateLimitedHeaders(r.op)
    [] code \in {200, 201} ->
         {"X-RateLimit-Limit", "X-RateLimit-Remaining"}
           \cup (IF r.op \in ReadOps THEN {"X-Cache"} ELSE {})
    [] OTHER -> {}

\* the fields of the JSON body of a response with this status
ResponseFields(r, code) ==
  CASE code = 429 -> {"error", "retryAfter"}
    [] code = 400 -> {"error", "details"}
    [] code \in {200, 201} ->
         IF r.op \in ReadOps THEN {"data", "cached"}
         ELSE IF r.op = "DELETE" THEN {"message"} ELSE {"data"}
    [] OTHER -> {"error"}

\* the body of a 500 response: the message of the failed database call, or
\* the catch block's message
FailureMessage(op) ==
  CASE op = "LIST" -> "Failed to fetch tasks"
    [] op = "GET" -> "Failed to fetch task"
    [] op = "CREATE" -> "Failed to create task"
    [] op = "PUT" -> "Failed to update task"
    [] OTHER -> "Failed to delete task"
ErrorJson(r) ==
  [error |-> IF "db" \in r.faults THEN FailureMessage(r.op)
             ELSE "Internal server error"]

\* the handler returns: the response is sent and the slot is free again
Respond(t, r, code) ==
  LET done == [r EXCEPT !.pc = "done", !.status = code, !.keys = {},
                        !.json = IF code = 500 THEN ErrorJson(r) ELSE @,
                        !.headers = ResponseHeaders(r, code),
                        !.fields = ResponseFields(r, code),
                        !.trace = Append(@, "Respond")]
  IN /\ th' = [th EXCEPT ![t] = Idle]
     /\ resp' = done
     /\ hist' = IF cfg.track /\ r.user \in Users
                THEN [hist EXCEPT ![r.user] = <<done, @[1]>>]
                ELSE hist
     /\ ackVer' = IF r.wrote /\ code \in {200, 201}
                  THEN [ackVer EXCEPT ![r.user] = Max(@, r.wver)]
                  ELSE ackVer

\* a handler whose next call never returns
ContinueHangs(t, r, pc) ==
  /\ th' = [th EXCEPT ![t] = [r EXCEPT !.pc = "hung"]]
  /\ resp' = NoResp
  /\ UNCHANGED <<hist, ackVer>>

\* the handler goes on to its next await
Continue(t, r, pc) ==
  /\ th' = [th EXCEPT ![t] = [r EXCEPT !.pc = pc]]
  /\ resp' = NoResp
  /\ UNCHANGED <<hist, ackVer>>

\* a handler without the identity check
AuthAny(user) == TRUE

\* the identity check of every task handler: if (authError || !user) -> 401
AuthOk(user) == user # NoUser

\* the handler that would invalidate whatever its database call answered
InvalidatesAlways(op, outcome) == TRUE

\* whether a write handler goes on to invalidateUserCache after its database
\* call ended "ok", "notfound" (PGRST116) or "error"
InvalidatesOn(op, outcome) == outcome = "ok"

SuccessCode(op) == IF op = "CREATE" THEN 201 ELSE 200

\* a write handler after its database call returned: the error branches answer
\* at once, the success branch invalidates first and answers code afterwards
AfterWrite(t, r, outcome, code) ==
  IF InvalidatesOn(r.op, outcome)
  THEN Continue(t, [r EXCEPT !.status = code], "invscan")
  ELSE Respond(t, r, code)

\* the handler up to its first await on shared state: headers, identity check
Begin(q) ==
  /\ started < cfg.maxReq
  /\ Cardinality(InFlight) < cfg.conc
  /\ LET t == NextSlot
         r == [Idle EXCEPT !.op = q.op, !.user = q.user, !.ip = q.ip, !.id = q.id,
                           !.body = q.body, !.trace = <<"AuthCheck">>,
                           !.ackAtStart = IF q.user \in Users THEN ackVer[q.user] ELSE 0]
     IN IF ~AuthOk(q.user)
        THEN Respond(t, r, 401)
        ELSE Continue(t, r, "ratelimit")
  /\ started' = started + 1
  /\ UNCHANGED <<cfg, signout, rlKey, logged, logs, edge, cors, now, ticks, store, db, idSeq, uver, rlCalls, swept>>

\* checkRateLimit, then for POST and PUT body parsing and validation
RateLimit(t, backendFault) ==
  /\ th[t].pc = "ratelimit"
  /\ LET r0 == th[t]
         fault == backendFault /\ cfg.rlBuild = "redis"
         kind == LimiterOf(r0.op)
         ident == createRateLimitKey(r0.user, r0.ip)
         lkey == LimiterKey(kind, ident)
         res == checkRateLimit(store, kind, ident, fault)
         prior == IF lkey \in DOMAIN rlCalls
                  THEN Len(InWindow(rlCalls[lkey], NowMs)) ELSE 0
         r == [r0 EXCEPT !.rl = res, !.rlPrior = prior, !.rlOps = @ + 1,
                         !.trace = Append(@, "RateLimit"),
                         !.faults = IF fault THEN @ \cup {"rl"} ELSE @]
         rv == [r EXCEPT !.trace = Append(@, "Validate")]
     IN /\ store' = checkRateLimitStore(store, kind, ident, fault)
        /\ rlCalls' = IF res.success /\ ~fault
                      THEN [k \in (DOMAIN rlCalls) \cup {lkey} |->
                              IF k = lkey
                              THEN Append(IF lkey \in DOMAIN rlCalls
                                          THEN InWindow(rlCalls[lkey], NowMs)
                                          ELSE <<>>, NowMs)
                              ELSE rlCalls[k]]
                      ELSE rlCalls
        /\ IF ~res.success THEN Respond(t, r, 429)
           ELSE IF r.op \in ReadOps THEN Continue(t, r, "cacheget")
           ELSE IF r.op = "DELETE" THEN Continue(t, r, "persist")
           ELSE IF r.body.k = "malformed" THEN Respond(t, rv, 500)
           ELSE IF r.op = "CREATE" /\ ~TaskCreateSchema(r.body) THEN Respond(t, rv, 400)
           ELSE IF r.op = "PUT" /\ ~TaskUpdateSchema(r.body) THEN Respond(t, rv, 400)
           ELSE Continue(t, rv, "persist")
  /\ UNCHANGED <<cfg, signout, rlKey, logged, logs, edge, cors, now, ticks, db, idSeq, started, uver, swept>>

\* GET handlers: CacheService.get and the hit branch
CacheLookup(t, fault) ==
  /\ th[t].pc = "cacheget"
  /\ LET r0 == th[t]
         v == CacheGet(store, CacheKeyOf(r0), fault)
         r == [r0 EXCEPT !.cacheOps = @ + 1, !.getAt = now,
                         !.trace = Append(@, "CacheLookup"),
                         !.faults = IF fault THEN @ \cup {"cacheget"} ELSE @]
     IN IF v.k = "throw" THEN Respond(t, r, 500)
        ELSE IF v.k # "null"
        THEN Respond(t, [r EXCEPT !.payload = v, !.cached = TRUE, !.hitVer = v.ver], 200)
        ELSE Continue(t, r, "persist")
  /\ UNCHANGED <<cfg, signout, rlKey, logged, logs, edge, cors, now, ticks, store, db, idSeq, started, uver, rlCalls, swept>>

\* the owner-scoped database call of each handler and its error branches
Persist(t, fault, message) ==
  /\ th[t].pc = "persist"
  /\ LET r0 == th[t]
         hit == DbMatch(r0.user, r0.id)
         r == [r0 EXCEPT !.dbOps = @ + 1, !.trace = Append(@, "Persist"),
                         !.found = ~fault /\ r0.op \in {"GET", "PUT", "DELETE"} /\ hit # {},
                         !.faults = IF fault THEN @ \cup {"db"} ELSE @,
                         !.dbError = message]
         w == [r EXCEPT !.wrote = TRUE, !.wver = uver[r.user] + 1]
         bump == [uver EXCEPT ![r.user] = @ + 1]
     IN IF fault
        THEN /\ IF r.op \in ReadOps THEN Respond(t, r, 500)
                ELSE AfterWrite(t, r, "error", 500)
             /\ UNCHANGED <<db, idSeq, uver>>
        ELSE CASE r.op = "LIST" ->
                    /\ Continue(t, [r EXCEPT !.payload =
                                      [k |-> "list", rows |-> DbSelectAll(r.user),
                                       ver |-> uver[r.user]]], "cacheset")
                    /\ UNCHANGED <<db, idSeq, uver>>
               [] r.op = "GET" ->
                    /\ IF hit = {}
                       THEN Respond(t, r, 404)
                       ELSE Continue(t, [r EXCEPT !.payload =
                                           [k |-> "task", row |-> CHOOSE row \in hit : TRUE,
                                            ver |-> uver[r.user]]], "cacheset")
                    /\ UNCHANGED <<db, idSeq, uver>>
               [] r.op = "CREATE" ->
                    /\ db' = db \cup {NewRow(r.user, r.body)}
                    /\ idSeq' = idSeq + 1
                    /\ uver' = bump
                    /\ AfterWrite(t, [w EXCEPT !.payload =
                                        [k |-> "task", row |-> NewRow(r.user, r.body),
                                         ver |-> uver[r.user] + 1]], "ok", 201)
               [] r.op = "PUT" ->
                    IF hit = {}
                    THEN /\ AfterWrite(t, r, "notfound", 404)
                         /\ UNCHANGED <<db, idSeq, uver>>
                    ELSE /\ db' = DbUpdate(r.user, r.id, r.body)
                         /\ uver' = bump
                         /\ AfterWrite(t, [w EXCEPT !.payload =
                                             [k |-> "task",
                                              row |-> UpdatedRow(CHOOSE row \in hit : TRUE, r.body),
                                              ver |-> uver[r.user] + 1]], "ok", 200)
                         /\ UNCHANGED idSeq
               [] r.op = "DELETE" ->
                    /\ db' = DbDelete(r.user, r.id)
                    /\ uver' = bump
                    /\ AfterWrite(t, w, "ok", 200)
                    /\ UNCHANGED idSeq
  /\ UNCHANGED <<cfg, signout, rlKey, logged, logs, edge, cors, now, ticks, store, started, rlCalls, swept>>

\* GET handlers after a miss: CacheService.set, then the MISS response
CacheStore(t, fault) ==
  /\ th[t].pc = "cacheset"
  /\ LET r0 == th[t]
         r == [r0 EXCEPT !.cacheOps = @ + 1, !.setAt = now,
                         !.trace = Append(@, "CacheSync"),
                         !.faults = IF fault THEN @ \cup {"cacheset"} ELSE @]
     IN /\ store' = CacheSet(store, CacheKeyOf(r), r.payload, fault)
        /\ Respond(t, r, 200)
  /\ UNCHANGED <<cfg, signout, rlKey, logged, logs, edge, cors, now, ticks, db, idSeq, started, uver, rlCalls, swept>>

\* write handlers after the database call: invalidateUserCache, the key scan
InvScan(t, fault) ==
  /\ th[t].pc = "invscan"
  /\ LET r0 == th[t]
         ks == InvalidateScan(store, invalidateUserCache(r0.user), fault)
         r == [r0 EXCEPT !.cacheOps = @ + 1, !.invalidated = TRUE,
                         !.trace = Append(@, "CacheSync"),
                         !.faults = IF fault THEN @ \cup {"invscan"} ELSE @]
     IN IF ks = {}
        THEN Respond(t, r, r.status)
        ELSE Continue(t, [r EXCEPT !.keys = ks], "invdel")
  /\ UNCHANGED <<cfg, signout, rlKey, logged, logs, edge, cors, now, ticks, store, db, idSeq, started, uver, rlCalls, swept>>

\* invalidateUserCache, the delete of the scanned keys, then the response
InvDel(t, fault) ==
  /\ th[t].pc = "invdel"
  /\ LET r0 == th[t]
         r == [r0 EXCEPT !.cacheOps = @ + 1,
                         !.deleted = IF fault THEN {} ELSE r0.keys \cap DOMAIN store,
                         !.faults = IF fault THEN @ \cup {"invdel"} ELSE @]
     IN /\ store' = InvalidateDel(store, r.keys, fault)
        /\ Respond(t, r, r.status)
  /\ UNCHANGED <<cfg, signout, rlKey, logged, logs, edge, cors, now, ticks, db, idSeq, started, uver, rlCalls, swept>>

(* ------------------------- archive endpoints --------------------------- *)
\* the columns both archive endpoints select
Selected(row) ==
  [id |-> row.id, title |-> row.title, user_id |-> row.user_id,
   updated_at |-> row.updated_at]

AdminResp(op, bearer, code, rows) ==
  [Idle EXCEPT !.pc = "done", !.op = op, !.bearer = bearer, !.status = code,
               !.payload = [k |-> "rows", rows |-> rows]]

\* the 500 of a failed database call: the body carries error.message
AdminFailure(op, bearer, text, message) ==
  [AdminResp(op, bearer, 500, {}) EXCEPT
     !.dbError = message, !.faults = {"archive"},
     !.json = [error |-> text, details |-> message]]

\* POST /api/admin/archive-tasks; bearer: the authorization header holds "Bearer"
ArchivePost(bearer, fault, message) ==
  /\ started < cfg.maxReq
  /\ Cardinality(InFlight) < cfg.conc
  /\ started' = started + 1
  /\ IF cfg.nodeEnv # "development" /\ ~bearer
     THEN /\ resp' = AdminResp("ARCHIVE_POST", bearer, 401, {})
          /\ UNCHANGED <<db, swept>>
     ELSE IF fault
     THEN /\ resp' = AdminFailure("ARCHIVE_POST", bearer, "Failed to archive tasks",
                                  message)
          /\ UNCHANGED <<db, swept>>
     ELSE /\ db' = DbArchive
          /\ swept' = (swept \/ Archivable # {})
          /\ resp' = AdminResp("ARCHIVE_POST", bearer, 200,
                               {Selected(ArchivedRow(row)) : row \in Archivable})
  /\ UNCHANGED <<cfg, signout, rlKey, logged, logs, edge, cors, now, ticks, store, idSeq, th, uver, ackVer, rlCalls, hist>>

\* GET /api/admin/archive-tasks: the handler takes no request and reads no header
ArchiveGet(bearer, fault, message) ==
  /\ started < cfg.maxReq
  /\ Cardinality(InFlight) < cfg.conc
  /\ started' = started + 1
  /\ resp' = IF fault
             THEN AdminFailure("ARCHIVE_GET", bearer,
                               "Failed to check archivable tasks", message)
             ELSE AdminResp("ARCHIVE_GET", bearer, 200,
                            {Selected(row) : row \in Archivable})
  /\ UNCHANGED <<cfg, signout, rlKey, logged, logs, edge, cors, now, ticks, store, db, idSeq, th, uver, ackVer, rlCalls,
                 hist, swept>>

(* ------------------------------- CORS ---------------------------------- *)
\* strings are sequences of characters; an environment variable or an argument
\* that is not given is EnvUnset or Absent
Str(s) == [k |-> "string", s |-> s]
EnvUnset == [k |-> "undefined"]
Absent == [k |-> "undefined"]
NoCall == [k |-> "none"]

DefaultOrigin ==
  <<"h", "t", "t", "p", ":", "/", "/", "l", "o", "c", "a", "l", "h", "o", "s",
    "t", ":", "3", "0", "0", "0">>
NullOrigin == <<"n", "u", "l", "l">>

\* String.prototype.split(','): the pieces of s from position i on, cur being
\* the piece read so far
RECURSIVE SplitFrom(_, _, _)
SplitFrom(s, i, cur) ==
  IF i > Len(s) THEN <<cur>>
  ELSE IF s[i] = "," THEN <<cur>> \o SplitFrom(s, i + 1, <<>>)
  ELSE SplitFrom(s, i + 1, Append(cur, s[i]))
Split(s) == SplitFrom(s, 1, <<>>)

Includes(list, x) == \E i \in 1..Len(list) : list[i] = x

\* process.env.CORS_ORIGINS?.split(',') || ['http://localhost:3000']
allowedOrigins(env) == IF env = EnvUnset THEN <<DefaultOrigin>> ELSE Split(env.s)

CorsBase ==
  [h \in {"Access-Control-Allow-Methods", "Access-Control-Allow-Headers",
          "Access-Control-Max-Age"} |->
     CASE h = "Access-Control-Allow-Methods" -> "GET, POST, PUT, DELETE, OPTIONS"
       [] h = "Access-Control-Allow-Headers" ->
            "Content-Type, Authorization, X-Requested-With"
       [] OTHER -> "86400"]

\* the base headers with the allow-origin header set to the string s
WithOrigin(s) ==
  [h \in DOMAIN CorsBase \cup
         {"Access-Control-Allow-Origin", "Access-Control-Allow-Credentials"} |->
     IF h \in DOMAIN CorsBase THEN CorsBase[h]
     ELSE IF h = "Access-Control-Allow-Origin" THEN Str(s) ELSE "true"]

\* a function that grants every origin it is given
getCORSHeadersAnyOrigin(origin, env) ==
  IF origin # Absent THEN WithOrigin(origin.s) ELSE CorsBase

getCORSHeaders(origin, env) ==
  IF origin = Str(NullOrigin) THEN WithOrigin(NullOrigin)
  ELSE IF /\ origin # Absent /\ origin.s # <<>>
          /\ Includes(allowedOrigins(env), origin.s)
       THEN WithOrigin(origin.s)
  ELSE CorsBase

\* a caller asks for the CORS headers of an origin
CorsCall(origin) ==
  /\ cors' = [k |-> "call", origin |-> origin,
              headers |-> getCORSHeaders(origin, cfg.corsOrigins)]
  /\ resp' = NoResp
  /\ UNCHANGED <<cfg, signout, rlKey, logged, logs, edge, now, ticks, store, db, idSeq, th, started, uver, ackVer,
                 rlCalls, hist, swept>>

(* ----------------------------- perimeter ------------------------------- *)
\* s[i..] starts with the string p
StartsAt(s, i, p) ==
  /\ i + Len(p) - 1 <= Len(s)
  /\ \A j \in 1..Len(p) : s[i + j - 1] = p[j]
\* String.prototype.includes
StrIncludes(s, p) == \E i \in 1..(Len(s) + 1) : StartsAt(s, i, p)

S_signup == <<"/", "s", "i", "g", "n", "u", "p">>
S_login == <<"/", "l", "o", "g", "i", "n">>

NoHeaders == [h \in {} |-> ""]
\* Headers.set of every entry of g on f
SetAll(f, g) ==
  [h \in DOMAIN f \cup DOMAIN g |-> IF h \in DOMAIN g THEN g[h] ELSE f[h]]

\* the Content-Security-Policy directives, in order
ContentSecurityPolicy(nonce) ==
  << [d |-> "default-src", v |-> "'self'"],
     [d |-> "script-src", v |-> [self |-> TRUE, nonce |-> nonce]],
     [d |-> "style-src", v |-> "'self' 'unsafe-inline'"],
     [d |-> "img-src", v |-> "'self' data: https:"],
     [d |-> "connect-src", v |-> "'self' https:"],
     [d |-> "frame-ancestors", v |-> "'none'"],
     [d |-> "base-uri", v |-> "'self'"],
     [d |-> "form-action", v |-> "'self'"],
     [d |-> "object-src", v |-> "'none'"] >>

SecurityHeaderNames ==
  {"Content-Security-Policy", "X-Content-Type-Options", "Referrer-Policy",
   "Permissions-Policy", "X-Frame-Options", "Strict-Transport-Security"}

getSecurityHeaders(nonce) ==
  [h \in SecurityHeaderNames |->
     CASE h = "Content-Security-Policy" -> ContentSecurityPolicy(nonce)
       [] h = "X-Content-Type-Options" -> "nosniff"
       [] h = "Referrer-Policy" -> "no-referrer"
       [] h = "Permissions-Policy" -> "camera=(), microphone=(), geolocation=()"
       [] h = "X-Frame-Options" -> "DENY"
       [] OTHER -> "max-age=31536000; includeSubDomains"]

NoEdge == [k |-> "none"]
\* what the perimeter did with a request: status 0 and forwarded when the
\* request goes on to its route
EdgeResp(method, url, origin, status, forwarded, trace, headers) ==
  [k |-> "edge", method |-> method, url |-> url, origin |-> origin,
   status |-> status, forwarded |-> forwarded, trace |-> trace,
   headers |-> headers]

\* the auth pages are let through before anything else is done
BypassesPerimeter(url) == StrIncludes(url, S_signup) \/ StrIncludes(url, S_login)
\* src/middleware.ts; origin header "" or missing is passed on as undefined
middleware(method, url, originHeader, nonce) ==
  LET origin == IF originHeader # Absent /\ originHeader.s # <<>>
                THEN originHeader ELSE Absent
      corsHeaders == getCORSHeaders(origin, cfg.corsOrigins)
  IN  IF BypassesPerimeter(url)
      THEN EdgeResp(method, url, originHeader, 0, TRUE, <<"next">>, NoHeaders)
      ELSE IF method = "OPTIONS"
      THEN EdgeResp(method, url, originHeader, 204, FALSE,
                    <<"getSession", "preflight">>, corsHeaders)
      ELSE EdgeResp(method, url, originHeader, 0, TRUE,
                    <<"getSession", "generateNonce", "next">>,
                    SetAll(SetAll([h \in {"x-nonce"} |-> nonce],
                                  getSecurityHeaders(nonce)), corsHeaders))

\* one request passes the perimeter; generateNonce draws the nonce
Middleware(method, url, originHeader, nonce) ==
  /\ edge' = middleware(method, url, originHeader, nonce)
  /\ resp' = NoResp
  /\ UNCHANGED <<cfg, signout, rlKey, logged, logs, cors, now, ticks, store, db, idSeq, th, started, uver,
                 ackVer, rlCalls, hist, swept>>

(* ------------------------------- logger -------------------------------- *)
maxLogs == 1000
LogLevels == {"DEBUG", "INFO", "WARN", "ERROR"}

\* a value that is given, as opposed to None
Param(v) == [k |-> "value", v |-> v]

\* createLogEntry: userId is None when the call site gives no meta.userId
LogEntry(level, message, userId) ==
  [timestamp |-> now, level |-> level, message |-> message, userId |-> userId]

\* Array.prototype.slice(-n) for n > 0
SliceLast(s, n) == IF Len(s) <= n THEN s ELSE SubSeq(s, Len(s) - n + 1, Len(s))
\* Array.prototype.slice(0, n)
SliceFirst(s, n) ==
  IF n >= 0 THEN SubSeq(s, 1, IF n < Len(s) THEN n ELSE Len(s))
  ELSE SubSeq(s, 1, IF Len(s) + n > 0 THEN Len(s) + n ELSE 0)

\* a buffer that keeps its oldest entries
addLogKeepsOldest(buf, entry) ==
  IF Len(buf) + 1 > maxLogs THEN SliceFirst(Append(buf, entry), maxLogs)
  ELSE Append(buf, entry)

\* Logger.addLog: push, then keep the last maxLogs entries
addLog(buf, entry) ==
  IF Len(buf) + 1 > maxLogs THEN SliceLast(Append(buf, entry), maxLogs)
  ELSE Append(buf, entry)

NoneLogged == [since |-> <<>>, calls |-> 0]

\* a call site logs one entry (debug, info, warn, error and their wrappers)
Log(level, message, userId) ==
  /\ logged.calls < MaxLogCalls
  /\ logs' = addLog(logs, LogEntry(level, message, userId))
  /\ logged' = [since |-> Append(logged.since, LogEntry(level, message, userId)),
                calls |-> logged.calls + 1]
  /\ resp' = NoResp
  /\ UNCHANGED <<cfg, signout, rlKey, edge, cors, now, ticks, store, db, idSeq, th, started,
                 uver, ackVer, rlCalls, hist, swept>>

S_apiRequest == "API request"
S_apiResponse == "API response"
S_cleared == "Logs cleared"
S_clearedByAdmin == "All logs cleared by admin"

\* Logger.apiResponse: the level follows the status code
ResponseLevel(statusCode) ==
  IF statusCode >= 400 THEN "ERROR" ELSE IF statusCode >= 300 THEN "WARN" ELSE "INFO"

\* Array.prototype.filter
Filter(s, Test(_)) == SelectSeq(s, Test)

getLogsByTimeRange(buf, startTime, endTime) ==
  LET InRange(e) == e.timestamp >= startTime /\ e.timestamp <= endTime
  IN  Filter(buf, InRange)

\* Array.prototype.sort with (a, b) => time(b) - time(a): stable, newest first
RECURSIVE SortFrom(_, _)
SortFrom(s, times) ==
  IF times = {} THEN <<>>
  ELSE LET newest == CHOOSE t \in times : \A u \in times : u <= t
           At(e) == e.timestamp = newest
       IN  Filter(s, At) \o SortFrom(s, times \ {newest})
SortNewestFirst(s) == SortFrom(s, {s[i].timestamp : i \in DOMAIN s})

DefaultLimit == 100

\* the body of GET on the admin logs endpoint: the logs it returns
LogsQuery(buf, q) ==
  LET HasLevel(e) == e.level = q.level.v
      HasUser(e) == e.userId = q.userId
      byLevel == IF q.level # None THEN Filter(buf, HasLevel) ELSE buf
      byUser == IF q.userId # None THEN Filter(byLevel, HasUser) ELSE byLevel
      byTime == IF q.startTime # None /\ q.endTime # None
                THEN getLogsByTimeRange(buf, q.startTime.v, q.endTime.v)
                ELSE byUser
  IN  SliceFirst(SortNewestFirst(byTime),
                 IF q.limit # None THEN q.limit.v ELSE DefaultLimit)

\* GET of the admin logs endpoint inside withRequestLogger: the request line is
\* logged, the handler runs, the response line is logged
LogsGet(q) ==
  /\ logged.calls < MaxLogCalls
  /\ LET e1 == LogEntry("INFO", S_apiRequest, None)
         e2 == LogEntry(ResponseLevel(200), S_apiResponse, None)
         seen == addLog(logs, e1)
     IN  /\ logs' = addLog(seen, e2)
         /\ logged' = [since |-> logged.since \o <<e1, e2>>,
                       calls |-> logged.calls + 1]
         /\ resp' = [Idle EXCEPT !.pc = "done", !.op = "LOGS_GET", !.status = 200,
                                 !.payload = [k |-> "logs", query |-> q, seen |-> seen,
                                              logs |-> LogsQuery(seen, q)]]
  /\ UNCHANGED <<cfg, signout, rlKey, edge, cors, now, ticks, store, db, idSeq, th, started,
                 uver, ackVer, rlCalls, hist, swept>>

\* DELETE of the admin logs endpoint inside withRequestLogger: clearLogs empties
\* the buffer and logs "Logs cleared", then the handler logs its own line
LogsDelete ==
  /\ logged.calls < MaxLogCalls
  /\ LET e1 == LogEntry("INFO", S_cleared, None)
         e2 == LogEntry("INFO", S_clearedByAdmin, None)
         e3 == LogEntry(ResponseLevel(200), S_apiResponse, None)
     IN  /\ logs' = addLog(addLog(addLog(<<>>, e1), e2), e3)
         /\ logged' = [since |-> <<e1, e2, e3>>, calls |-> logged.calls + 1]
  /\ resp' = [Idle EXCEPT !.pc = "done", !.op = "LOGS_DELETE", !.status = 200]
  /\ UNCHANGED <<cfg, signout, rlKey, edge, cors, now, ticks, store, db, idSeq, th, started,
                 uver, ackVer, rlCalls, hist, swept>>

(* ------------------------ rate limit key calls ------------------------- *)
\* a route or another caller builds a limiter identifier
KeyCall(userId, ip) ==
  /\ rlKey' = [k |-> "call", userId |-> userId, ip |-> ip,
               key |-> createRateLimitKey(userId, ip)]
  /\ resp' = NoResp
  /\ UNCHANGED <<cfg, signout, logged, logs, edge, cors, now, ticks, store, db, idSeq, th,
                 started, uver, ackVer, rlCalls, hist, swept>>

(* ------------------------------- logout -------------------------------- *)
S_localhost == <<"l", "o", "c", "a", "l", "h", "o", "s", "t">>
S_https == <<"h", "t", "t", "p", "s", ":", "/", "/">>
S_loginPath == <<"/", "l", "o", "g", "i", "n">>
S_signOutFailed == <<"/", "d", "a", "s", "h", "b", "o", "a", "r", "d", "?", "e", "r", "r", "o", "r", "=", "C", "o", "u", "l", "d", " ", "n", "o", "t", " ", "s", "i", "g", "n", " ", "o", "u", "t">>

\* String.prototype.startsWith
StartsWith(s, p) == StartsAt(s, 1, p)
\* JavaScript truthiness of a string
Truthy(s) == s # <<>>

\* the origin the logout handler builds its redirects on: the expression
\*   a || b ? 'http://localhost:3000' : `https://${host}` || 'http://localhost:3000'
\* parses as (a || b) ? ... : ..., a being request.nextUrl.origin and b
\* host?.startsWith('localhost')
logoutOrigin(nextUrlOrigin, host) ==
  IF Truthy(nextUrlOrigin) \/ (host # Absent /\ StartsWith(host.s, S_localhost))
  THEN DefaultOrigin
  ELSE S_https \o (IF host = Absent THEN NullOrigin ELSE host.s)

NoSignOut == [at |-> <<>>, last |-> NoCall]

\* sign-outs of an identifier key inside the window that ends now
SignOutsInWindow(key) ==
  IF key \in DOMAIN signout.at THEN InWindow(signout.at[key], NowMs) ELSE <<>>

\* POST /api/auth/logout: signOut, then a redirect
Logout(user, ip, nextUrlOrigin, host, signOutError) ==
  LET key == createRateLimitKey(user, ip)
      prior == SignOutsInWindow(key)
      origin == logoutOrigin(nextUrlOrigin, host)
  IN /\ Len(prior) < MaxLogouts
     /\ signout' =
          [at |-> [k \in DOMAIN signout.at \cup {key} |->
                     IF k = key THEN Append(prior, NowMs) ELSE signout.at[k]],
           last |-> [k |-> "call", key |-> key, prior |-> Len(prior),
                     requestOrigin |-> nextUrlOrigin, host |-> host,
                     signOutCalled |-> TRUE, signOutError |-> signOutError,
                     status |-> 307,
                     location |-> IF signOutError THEN origin \o S_signOutFailed
                                  ELSE origin \o S_loginPath]]
     /\ resp' = NoResp
     /\ UNCHANGED <<cfg, rlKey, logged, logs, edge, cors, now, ticks, store, db,
                    idSeq, th, started, uver, ackVer, rlCalls, hist, swept>>

(* -------------------------------- clock -------------------------------- *)
Tick ==
  /\ ticks < MaxTicks
  /\ ticks' = ticks + 1
  /\ now' = now + TickSec
  /\ store' = Restrict(store, LiveKeys(store, now + TickSec))
  /\ rlCalls' = [k \in DOMAIN rlCalls |-> InWindow(rlCalls[k], (now + TickSec) * 1000)]
  /\ resp' = NoResp
  /\ UNCHANGED <<cfg, signout, rlKey, logged, logs, edge, cors, db, idSeq, th, started, uver, ackVer, hist, swept>>

(* ------------------------------ workloads ------------------------------ *)
Req(op, user, ip, id, body) ==
  [op |-> op, user |-> user, ip |-> ip, id |-> id, body |-> body]

\* bodies the clients send
CreateOk == JObject([title |-> JStr("A", 1), status |-> JStr("todo", 4)])
CreateNoStatus == JObject([title |-> JStr("A", 1)])
UpdateDone == JObject([status |-> JStr("done", 4)])
UpdateTitle == JObject([title |-> JStr("B", 1), status |-> JStr("todo", 4)])
UpdateOwner == JObject([status |-> JStr("done", 4), user_id |-> JStr(U2, 2)])

RequestsOf(users, ids, creates, updates) ==
  {Req("LIST", u, ip, T1, NoBody) : u \in users, ip \in IPs}
  \cup {Req(op, u, ip, id, NoBody) :
          op \in {"GET", "DELETE"}, u \in users, ip \in IPs, id \in ids}
  \cup {Req("CREATE", u, ip, T1, b) : u \in users, ip \in IPs, b \in creates}
  \cup {Req("PUT", u, ip, id, b) : u \in users, ip \in IPs, id \in ids, b \in updates}

\* one caller with every kind of body on its own and another owner's task, and
\* a caller without identity
WideRequests ==
  RequestsOf({U1}, {T1, T2}, {CreateOk, CreateNoStatus, Malformed},
             {UpdateDone, UpdateOwner, Malformed})
  \cup RequestsOf({NoUser}, {T1}, {CreateOk}, {UpdateDone})

(* ------------------------------ behaviours ----------------------------- *)
\* a log of n allowed calls at time 0
RECURSIVE Zeros(_)
Zeros(n) == IF n = 0 THEN <<>> ELSE <<0>> \o Zeros(n - 1)

\* rows present when the service starts serving: an old finished task of U1 and
\* a fresh task of U2
InitRows ==
  { [id |-> GenId(1), user_id |-> U1, title |-> "A", status |-> "done",
     created_at |-> -(40 * DaySec), updated_at |-> -(31 * DaySec)],
    [id |-> GenId(2), user_id |-> U2, title |-> "A", status |-> "todo",
     created_at |-> 0, updated_at |-> 0] }

\* everything but the logger
InitBase(configs, preloads, rows) ==
  /\ cfg \in configs
  /\ now = 0
  /\ ticks = 0
  /\ store \in preloads
  /\ rlCalls = [k \in DOMAIN store |-> store[k].val.log]
  /\ db = rows
  /\ idSeq = 2
  /\ th = [t \in Threads |-> Idle]
  /\ started = 0
  /\ uver = [u \in Users |-> 0]
  /\ ackVer = [u \in Users |-> 0]
  /\ hist = [u \in Users |-> <<NoResp, NoResp>>]
  /\ swept = FALSE
  /\ cors = NoCall
  /\ edge = NoEdge
  /\ rlKey = NoCall
  /\ signout = NoSignOut
  /\ resp = NoResp

InitWith(configs, preloads, rows) ==
  /\ InitBase(configs, preloads, rows)
  /\ logs = <<>>
  /\ logged = NoneLogged

Next ==
  \/ \E q \in cfg.menu : Begin(q)
  \/ \E t \in Threads, f \in FaultChoices("rl") : RateLimit(t, f)
  \/ \E t \in Threads, f \in FaultChoices("cacheget") : CacheLookup(t, f)
  \/ \E t \in Threads, f \in FaultChoices("db") :
       \E message \in ErrorChoices(f) : Persist(t, f, message)
  \/ \E t \in Threads, f \in FaultChoices("cacheset") : CacheStore(t, f)
  \/ \E t \in Threads, f \in FaultChoices("invscan") : InvScan(t, f)
  \/ \E t \in Threads, f \in FaultChoices("invdel") : InvDel(t, f)
  \/ \E b \in BOOLEAN, f \in FaultChoices("archive") :
       \E message \in ErrorChoices(f) : ArchivePost(b, f, message)
  \/ \E b \in BOOLEAN, f \in FaultChoices("archive") :
       \E message \in ErrorChoices(f) : ArchiveGet(b, f, message)
  \/ Tick

\* one request at a time, every kind of request, backend faults
PipelineConfigs ==
  [rlBuild : {"redis", "bypass"}, nodeEnv : {"production"}, conc : {1},
   faults : {FaultStages}, track : {FALSE}, maxReq : {MaxWideRequests},
   menu : {WideRequests}, corsOrigins : {EnvUnset},
   dbErrors : {{DbError1}}]

PipelinePreloads ==
  {<<>>} \cup
  { [k \in {LimiterKey(kind, createRateLimitKey(U1, IP1))} |->
       [val |-> [k |-> "log", log |-> Zeros(LimiterTokens(kind))], exp |-> WindowSec]]
    : kind \in {"read", "write"} }

InitPipeline == InitWith(PipelineConfigs, PipelinePreloads, InitRows)

SpecPipeline == InitPipeline /\ [][Next]_vars


\* the deployment with the Redis-backed limiter module
RedisConfigs == {c \in PipelineConfigs : c.rlBuild = "redis"}
InitRedis == InitWith(RedisConfigs, PipelinePreloads, InitRows)
SpecRedis == InitRedis /\ [][Next]_vars

(* ------------------------- what the claims observe --------------------- *)
\* every task request that is running or was answered by the last step
Requests ==
  {th[t] : t \in InFlight} \cup (IF resp.pc = "done" /\ resp.op \in Ops THEN {resp} ELSE {})

\* the task response sent by the last step, if any
Answered == resp.pc = "done" /\ resp.op \in Ops

Stages ==
  <<"AuthCheck", "RateLimit", "Validate", "CacheLookup", "Persist", "CacheSync", "Respond">>
StageIndex(name) == CHOOSE i \in 1..Len(Stages) : Stages[i] = name
InStageOrder(trace) ==
  \A i \in 1..(Len(trace) - 1) : StageIndex(trace[i]) < StageIndex(trace[i + 1])

\* what the database answers the owner of request r for the query of r
DbView(r) == IF r.op = "LIST" THEN DbSelectAll(r.user) ELSE DbMatch(r.user, r.id)

(* -------------------------------- C1 ----------------------------------- *)
\* C1: a limiter call that did not hit a backend error succeeds while fewer than
\* N calls of the same key were allowed in the current window, and once N were
\* allowed it is refused with a positive retryAfter; calls allowed more than a
\* window ago no longer count.
LimiterContract ==
  \A r \in Requests :
    (r.rlOps = 1 /\ "rl" \notin r.faults) =>
      LET N == LimiterTokens(LimiterOf(r.op))
      IN /\ r.rlPrior < N => (r.rl.success /\ r.rl.retryAfter.k = "null")
         /\ r.rlPrior >= N =>
              (~r.rl.success /\ r.rl.retryAfter.k = "number" /\ r.rl.retryAfter.n > 0)

(* -------------------------------- C4 ----------------------------------- *)
\* C4: a request invalidates only after its own persistence write succeeded and
\* before it responds; a mutating request answered 401, 429, 400, 404 or 500
\* made no cache call at all.
InvalidationAfterWrite ==
  \A r \in Requests :
    /\ r.invalidated => r.wrote
    /\ (r.pc = "done" /\ r.op \in WriteOps /\ r.status \in {200, 201}) =>
         (r.wrote /\ r.invalidated)
    /\ (r.pc = "done" /\ r.op \in WriteOps /\ r.status \in {401, 429, 400, 404, 500}) =>
         (r.cacheOps = 0 /\ ~r.invalidated /\ r.deleted = {})

\* a write that failed in the database was answered 500 and the cached list of
\* its owner is still in the store
FailedWriteKeepsCache ==
  /\ Answered /\ resp.op \in WriteOps /\ resp.status = 500 /\ "db" \in resp.faults
  /\ getUserTasksKey(resp.user) \in DOMAIN store

(* -------------------------------- C8 ----------------------------------- *)
\* C8: when the limiter backend fails, checkRateLimit answers success without
\* retryAfter and logs the error, and the request is answered neither 429 nor,
\* because of that failure, 500.
RateLimitFailsOpen ==
  \A r \in Requests :
    "rl" \in r.faults =>
      /\ r.rl.success
      /\ r.rl.retryAfter.k = "null"
      /\ r.rl.log = "error: Rate limit check error"
      /\ r.pc = "done" =>
           /\ r.status # 429
           /\ r.status = 500 => ("db" \in r.faults \/ r.body.k = "malformed")

\* a request whose limiter call failed was served
ServedDespiteLimiterFault ==
  Answered /\ "rl" \in resp.faults /\ resp.status \in {200, 201}

(* -------------------------------- C9 ----------------------------------- *)
\* C9: a request whose cache calls fail is answered as if the cache were empty:
\* a read is a MISS with the payload the database holds (404 when the task does
\* not exist), a write is answered 201 or 200; only a database error gives 500.
CacheBestEffort ==
  Answered =>
    ((resp.faults \cap CacheFaults # {} /\ "db" \notin resp.faults) =>
       /\ resp.op \in ReadOps =>
            /\ "cacheget" \in resp.faults => ~resp.cached
            /\ \/ resp.status = 200 /\ (~resp.cached => Data(resp.payload) = DbView(resp))
               \/ resp.status = 404 /\ resp.op = "GET" /\ DbView(resp) = {}
       /\ resp.op \in WriteOps => (resp.wrote /\ resp.status = SuccessCode(resp.op)))

\* a read was answered 200 MISS although both of its cache calls failed
ReadServedWithoutCache ==
  /\ Answered /\ resp.op \in ReadOps /\ resp.status = 200 /\ ~resp.cached
  /\ {"cacheget", "cacheset"} \subseteq resp.faults

(* -------------------------------- C10 ---------------------------------- *)
\* C10: every request runs its stages in the order AuthCheck, RateLimit,
\* Validate, CacheLookup, Persist, CacheSync, Respond; a caller without identity
\* is answered 401 before any limiter, cache or database call; a 429 and a 400
\* are answered before any cache or database call.
PipelineOrder ==
  \A r \in Requests :
    /\ r.trace # <<>> /\ r.trace[1] = "AuthCheck"
    /\ InStageOrder(r.trace)
    /\ r.rlOps + r.cacheOps + r.dbOps > 0 => r.user \in Users
    /\ r.cacheOps + r.dbOps > 0 => (r.rlOps = 1 /\ r.rl.success)
    /\ r.pc = "done" =>
         /\ r.trace[Len(r.trace)] = "Respond"
         /\ r.user = NoUser => r.status = 401
         /\ r.status = 401 => r.rlOps = 0 /\ r.cacheOps = 0 /\ r.dbOps = 0
         /\ r.status \in {429, 400} => r.cacheOps = 0 /\ r.dbOps = 0
         /\ (r.rlOps = 1 /\ ~r.rl.success) => r.status = 429

\* a caller without identity was answered 401 with nothing but the identity check
RejectedBeforeLimiter ==
  /\ Answered /\ resp.user = NoUser /\ resp.status = 401
  /\ resp.trace = <<"AuthCheck", "Respond">>

(* ------------------------ further workloads ---------------------------- *)
\* one owner working on its own task, one request at a time, cache backend
\* faults, the last two responses of the owner remembered
OwnerRequests == RequestsOf({U1}, {T1}, {}, {UpdateTitle})

SeqConfigs ==
  [rlBuild : {"redis"}, nodeEnv : {"production"}, conc : {1},
   faults : {CacheFaults},
   track : {TRUE}, maxReq : {MaxRequests}, menu : {OwnerRequests}, corsOrigins : {EnvUnset},
   dbErrors : {{DbError1}}]
InitSeq == InitWith(SeqConfigs, {<<>>}, InitRows)
SpecSeq == InitSeq /\ [][Next]_vars

\* two owners, each asking for its own and for the other's task
BothRequests == RequestsOf(Users, {T1, T2}, {CreateOk}, {UpdateTitle})

IsolationConfigs ==
  [rlBuild : {"redis"}, nodeEnv : {"production"}, conc : {1}, faults : {{}},
   track : {FALSE}, maxReq : {MaxRequests}, menu : {BothRequests}, corsOrigins : {EnvUnset},
   dbErrors : {{DbError1}}]
InitIsolation == InitWith(IsolationConfigs, {<<>>}, InitRows)
SpecIsolation == InitIsolation /\ [][Next]_vars

\* one owner reading and updating one open task with two requests in flight
RaceRequests ==
  { Req("LIST", U1, IP1, T1, NoBody), Req("GET", U1, IP1, T1, NoBody),
    Req("PUT", U1, IP1, T1, UpdateTitle) }

RaceRows ==
  { [id |-> GenId(1), user_id |-> U1, title |-> "A", status |-> "todo",
     created_at |-> 0, updated_at |-> 0] }

RaceConfigs ==
  [rlBuild : {"redis"}, nodeEnv : {"production"}, conc : {2}, faults : {{}},
   track : {FALSE}, maxReq : {MaxRequests}, menu : {RaceRequests}, corsOrigins : {EnvUnset},
   dbErrors : {{DbError1}}]
InitRace == InitWith(RaceConfigs, {<<>>}, RaceRows)
SpecRace == InitRace /\ [][Next]_vars

(* -------------------------------- C2 ----------------------------------- *)
\* C2: every task in a response belongs to the caller, whether it was read from
\* the database or from the cache, and a database step of a request leaves the
\* tasks of every other owner as they were.
OwnerIsolation ==
  /\ [](Answered => \A row \in Data(resp.payload) : row.user_id = resp.user)
  /\ [][\A t \in Threads :
          (th[t].pc = "persist" /\ th'[t] # th[t]) =>
             {row \in db' : row.user_id # th[t].user}
               = {row \in db : row.user_id # th[t].user}]_vars

\* a caller asked to delete another owner's task; the task is still there
ForeignDeleteLeavesTask ==
  /\ Answered /\ resp.op = "DELETE" /\ resp.dbOps = 1
  /\ \E row \in db : row.id = resp.id /\ row.user_id # resp.user

(* -------------------------------- C3 ----------------------------------- *)
\* a response that carries the outcome of the handler's own query
Served(r) == r.pc = "done" /\ r.status \in {200, 404}

\* the three sequential cases for a request cur that directly follows prev of
\* the same owner; clean says whether cache backend faults are excluded
SeqCases(prev, cur, clean) ==
  (clean => (prev.faults \cup cur.faults) \cap CacheFaults = {}) =>
    /\ (prev.op \in WriteOps /\ prev.status \in {200, 201}
        /\ cur.op \in ReadOps /\ Served(cur)) =>
         \/ cur.status = 200 /\ ~cur.cached /\ Data(cur.payload) = DbView(cur)
         \/ cur.status = 404 /\ cur.op = "GET" /\ DbView(cur) = {}
    /\ (prev.op \in ReadOps /\ prev.status = 200 /\ ~prev.cached
        /\ cur.op = prev.op /\ cur.id = prev.id /\ Served(cur)
        /\ cur.getAt < prev.setAt + TTL) =>
         (cur.status = 200 /\ cur.cached /\ Data(cur.payload) = Data(prev.payload))
    /\ (prev.op = "DELETE" /\ prev.status = 200
        /\ cur.op = "GET" /\ cur.id = prev.id /\ Served(cur)) =>
         cur.status = 404

SeqCache(clean) ==
  \A u \in Users :
    (Answered /\ resp.user = u /\ hist[u][2].pc = "done") =>
       SeqCases(hist[u][2], hist[u][1], clean)

RECURSIVE IsPrefix(_, _)
IsPrefix(p, s) ==
  \/ p = <<>>
  \/ s # <<>> /\ Head(p) = Head(s) /\ IsPrefix(Tail(p), Tail(s))

\* the cache keys of an owner that are present in the store
UserCacheKeys(userId) ==
  {k \in LiveKeys(store, now) :
     \/ k = getUserTasksKey(userId)
     \/ IsPrefix(S_task \o Colon \o userId \o Colon, k)}

\* C6: when invalidateUserCache(U) has returned without a backend error, neither
\* tasks:{U} nor any task:{U}:{id} is in the cache.
UserKeysGone ==
  (Answered /\ resp.invalidated /\ resp.faults \cap {"invscan", "invdel"} = {}) =>
     UserCacheKeys(resp.user) = {}

\* an invalidation deleted the list key and a single-task key of the owner
ListAndTaskKeyDeleted ==
  /\ Answered /\ resp.invalidated /\ resp.faults \cap {"invscan", "invdel"} = {}
  /\ {getUserTasksKey(resp.user), getUserTaskKey(resp.user, T1)} \subseteq resp.deleted

(* -------------------------------- C7 ----------------------------------- *)
\* C7: the archival sweep invalidates like every other mutating endpoint, so a
\* cached payload served after a sweep shows no archived task with the status
\* it had before.
SweepInvalidates ==
  (Answered /\ resp.cached) =>
     \A row \in Data(resp.payload) :
       \A d \in db : (d.id = row.id /\ d.status = "archived") => row.status = "archived"

(* -------------------------------- C5 ----------------------------------- *)
\* the cached payload under key, or None
Cached(key) == RedisGet(store, key)

\* C5: whatever the interleaving, a read that begins after a write of its owner
\* was answered 2xx is never a HIT with a payload read from the database before
\* that write, and once no write of an owner is between its database call and
\* its response, the cached list and a cached single task of that owner show the
\* same row for the same task.
NoStaleRepopulation ==
  /\ (Answered /\ resp.cached) => resp.hitVer >= resp.ackAtStart
  /\ \A u \in Users, id \in TaskIds :
       LET l == Cached(getUserTasksKey(u))
           s == Cached(getUserTaskKey(u, id))
       IN (l.k = "list" /\ s.k = "task"
           /\ \A t \in InFlight : ~(th[t].user = u /\ th[t].wrote)) =>
            s.row \in l.rows

(* -------------------------------- C11 ---------------------------------- *)
\* C11: every 429 of a task route carries Retry-After, X-RateLimit-Limit,
\* X-RateLimit-Remaining and X-RateLimit-Reset and a body with error and
\* retryAfter; every 2xx of a task route carries X-RateLimit-Limit and
\* X-RateLimit-Remaining.
RateLimitHeadersComplete ==
  Answered =>
    /\ resp.status = 429 =>
         /\ {"Retry-After", "X-RateLimit-Limit", "X-RateLimit-Remaining",
             "X-RateLimit-Reset"} \subseteq resp.headers
         /\ {"error", "retryAfter"} \subseteq resp.fields
         /\ resp.rl.retryAfter.k = "number"
    /\ resp.status \in {200, 201} =>
         {"X-RateLimit-Limit", "X-RateLimit-Remaining"} \subseteq resp.headers

(* ------------------------- validation workload ------------------------- *)
\* bodies at the title boundaries, with fields outside the schema, and bodies
\* that are no JSON object
CreateTitle0 == JObject([title |-> JStr("", 0), status |-> JStr("todo", 4)])
CreateTitle120 == JObject([title |-> JStr("L120", 120), status |-> JStr("todo", 4)])
CreateTitle121 == JObject([title |-> JStr("L121", 121), status |-> JStr("todo", 4)])
CreateWithOwner ==
  JObject([title |-> JStr("A", 1), status |-> JStr("todo", 4), user_id |-> JStr(U2, 2)])
CreateWithId ==
  JObject([title |-> JStr("A", 1), status |-> JStr("todo", 4), id |-> JStr(T2, 1)])
CreateWithCreatedAt ==
  JObject([title |-> JStr("A", 1), status |-> JStr("todo", 4), created_at |-> JStr(-1, 2)])
UpdateTitle0 == JObject([title |-> JStr("", 0)])
UpdateTitle120 == JObject([title |-> JStr("L120", 120)])
UpdateTitle121 == JObject([title |-> JStr("L121", 121)])
UpdateId == JObject([title |-> JStr("B", 1), id |-> JStr(T2, 1)])
UpdateCreatedAt == JObject([title |-> JStr("B", 1), created_at |-> JStr(-1, 2)])

CreateBodies ==
  {CreateOk, CreateNoStatus, CreateTitle0, CreateTitle120, CreateTitle121,
   CreateWithOwner, CreateWithId, CreateWithCreatedAt, Malformed, NonObject}
UpdateBodies ==
  {UpdateTitle, UpdateDone, UpdateTitle0, UpdateTitle120, UpdateTitle121,
   UpdateOwner, UpdateId, UpdateCreatedAt, Malformed, NonObject}

\* one caller writing every kind of body, to its own and to another owner's task
ValidationRequests ==
  { Req("LIST", U1, IP1, T1, NoBody) }
  \cup { Req("CREATE", U1, IP1, T1, b) : b \in CreateBodies }
  \cup { Req("PUT", U1, IP1, id, b) : id \in {T1, T2}, b \in UpdateBodies }

ValidationConfigs ==
  [rlBuild : {"redis"}, nodeEnv : {"production"}, conc : {1}, faults : {{}},
   track : {FALSE}, maxReq : {MaxRequests}, menu : {ValidationRequests}, corsOrigins : {EnvUnset},
   dbErrors : {{DbError1}}]
InitValidation == InitWith(ValidationConfigs, {<<>>}, InitRows)
SpecValidation == InitValidation /\ [][Next]_vars

(* -------------------------------- C12 ---------------------------------- *)
\* the schema a write handler parses its body against
SchemaOf(op, b) == IF op = "CREATE" THEN TaskCreateSchema(b) ELSE TaskUpdateSchema(b)

\* a POST or PUT with a JSON object as body that passed the limiter was answered
ObjectWriteAnswered ==
  /\ Answered /\ resp.op \in {"CREATE", "PUT"} /\ resp.body.k = "object"
  /\ resp.rlOps = 1 /\ resp.rl.success

TitleAloneCreates ==
  (ObjectWriteAnswered /\ resp.op = "CREATE" /\ DOMAIN resp.body.f = {"title"}
   /\ resp.body.f["title"].k = "string"
   /\ resp.body.f["title"].len \in 1..120) =>
     (resp.status = 201 /\ resp.wrote)

(* -------------------------------- C14 ---------------------------------- *)
\* C14: a POST or PUT that passed the identity check and the limiter and whose
\* body is not parseable as a JSON object is answered 400 with field-level
\* details, never 500, and makes no database call.
MalformedBodyRejected ==
  (Answered /\ resp.op \in {"CREATE", "PUT"} /\ resp.rlOps = 1 /\ resp.rl.success
   /\ resp.body.k \in {"malformed", "array"}) =>
     (resp.status = 400 /\ "details" \in resp.fields /\ resp.dbOps = 0 /\ ~resp.wrote)

(* -------------------------------- C15 ---------------------------------- *)
\* C15: a created task is owned by the identity of the request that created
\* it; a POST or PUT body carrying id, user_id or created_at is rejected with
\* 400; and no step changes the id, owner or created_at of a task that exists.
OwnerImmutable ==
  /\ [](ObjectWriteAnswered =>
          /\ (resp.op = "CREATE" /\ resp.status = 201) =>
               resp.payload.row.user_id = resp.user
          /\ DOMAIN resp.body.f \cap {"id", "user_id", "created_at"} # {} =>
               (resp.status = 400 /\ ~resp.wrote))
  /\ [][\A row \in db, next \in db' :
          row.id = next.id =>
            (next.user_id = row.user_id /\ next.created_at = row.created_at)]_vars
  /\ [][\A next \in db' :
          (\A row \in db : row.id # next.id) =>
             \E t \in Threads :
               /\ th[t].pc = "persist" /\ th[t].op = "CREATE"
               /\ next.user_id = th[t].user /\ next.created_at = now]_vars

\* a PUT that tried to hand the caller's task to another owner was rejected and
\* the task still belongs to the caller
OwnerChangeRejected ==
  /\ ObjectWriteAnswered /\ resp.op = "PUT" /\ resp.status = 400
  /\ "user_id" \in DOMAIN resp.body.f /\ resp.body.f["user_id"].s # resp.user
  /\ \E row \in db : row.id = resp.id /\ row.user_id = resp.user

(* -------------------------------- C16 ---------------------------------- *)
\* C16: a GET, PUT with a valid body or DELETE of /api/tasks/{id} whose
\* owner-scoped database call found no row for the id is answered 404.
MissingRowIs404 ==
  (Answered /\ resp.op \in {"GET", "PUT", "DELETE"} /\ resp.dbOps = 1
   /\ "db" \notin resp.faults /\ ~resp.found) =>
     resp.status = 404

(* -------------------------- archive workload --------------------------- *)
T4 == <<"d">>
T5 == <<"e">>
\* finished tasks of two owners on both sides of the cutoff and exactly on it,
\* and an old task that is not finished
ArchiveRows ==
  { [id |-> T1, user_id |-> U1, title |-> "A", status |-> "done",
     created_at |-> -(40 * DaySec), updated_at |-> -(31 * DaySec)],
    [id |-> T2, user_id |-> U2, title |-> "A", status |-> "done",
     created_at |-> -(40 * DaySec), updated_at |-> -(ArchiveDays * DaySec)],
    [id |-> T4, user_id |-> U2, title |-> "A", status |-> "done",
     created_at |-> -(40 * DaySec), updated_at |-> -(ArchiveDays * DaySec) - 1],
    [id |-> T5, user_id |-> U1, title |-> "A", status |-> "todo",
     created_at |-> -(40 * DaySec), updated_at |-> -(31 * DaySec)] }

\* the owners list, finish and reopen tasks between the sweeps
ArchiveRequests ==
  { Req("LIST", U1, IP1, T1, NoBody), Req("PUT", U1, IP1, T5, UpdateDone),
    Req("PUT", U2, IP1, T2, UpdateTitle) }

ArchiveConfigs ==
  [rlBuild : {"redis"}, nodeEnv : {"production", "development"}, conc : {1},
   faults : {{"archive"}}, track : {FALSE}, maxReq : {MaxRequests},
   menu : {ArchiveRequests}, corsOrigins : {EnvUnset},
   dbErrors : {{DbError1}}]
InitArchive == InitWith(ArchiveConfigs, {<<>>}, ArchiveRows)
SpecArchive == InitArchive /\ [][Next]_vars

\* the last step ran the named archive endpoint, which answered 200
SweepAnswered == resp.pc = "done" /\ resp.op = "ARCHIVE_POST" /\ resp.status = 200
CheckAnswered == resp.pc = "done" /\ resp.op = "ARCHIVE_GET" /\ resp.status = 200

(* -------------------------------- C17 ---------------------------------- *)
\* C17: a sweep that runs directly after a successful sweep, at the same
\* cutoff, finds no candidate: it reports no task and changes no task.
SweepIdempotent ==
  [][(SweepAnswered /\ SweepAnswered' /\ started' = started + 1 /\ now' = now) =>
       (resp'.payload.rows = {} /\ db' = db)]_vars

\* two sweeps ran in succession at one cutoff: the first archived tasks, the
\* second reported none
SecondSweepEmpty ==
  /\ SweepAnswered /\ resp.payload.rows = {}
  /\ swept /\ started = 2 /\ ticks = 0

(* -------------------------------- C18 ---------------------------------- *)
\* the tasks of any owner that are done and were last updated strictly before
\* now minus 30 days
DueForArchive ==
  {row \in db : row.status = "done" /\ row.updated_at < now - 30 * 86400}

\* C18: a successful sweep changes exactly the tasks that are done and last
\* updated strictly before the cutoff, whoever owns them: each becomes archived
\* with updated_at set to the time of the sweep and is reported, every other
\* task stays as it was; a successful read-only check reports exactly that set
\* and changes no task.
SweepExact ==
  [][/\ (SweepAnswered' /\ started' = started + 1) =>
          /\ db' = (db \ DueForArchive) \cup
                     {[row EXCEPT !.status = "archived", !.updated_at = now] :
                        row \in DueForArchive}
          /\ {r.id : r \in resp'.payload.rows} = {row.id : row \in DueForArchive}
          /\ \A r \in resp'.payload.rows : r.updated_at = now
     /\ (CheckAnswered' /\ started' = started + 1) =>
          /\ db' = db
          /\ resp'.payload.rows = {Selected(row) : row \in DueForArchive}]_vars

\* a sweep archived finished tasks of both owners and left the finished task
\* that was updated exactly at the cutoff
SweepAcrossOwners ==
  /\ SweepAnswered
  /\ {r.user_id : r \in resp.payload.rows} = Users
  /\ \E row \in db : /\ row.id = T2 /\ row.status = "done"
                     /\ row.updated_at = now - ArchiveDays * DaySec

(* -------------------------------- C19 ---------------------------------- *)
\* C19: outside development mode a GET or POST of /api/admin/archive-tasks
\* that carries no bearer credential is answered 401, returns no task of any
\* owner and changes no task.
AdminNeedsBearer ==
  [][(/\ resp'.pc = "done" /\ resp'.op \in {"ARCHIVE_POST", "ARCHIVE_GET"}
      /\ started' = started + 1
      /\ cfg.nodeEnv # "development" /\ ~resp'.bearer) =>
       (resp'.status = 401 /\ resp'.payload.rows = {} /\ db' = db)]_vars

(* ---------------------------- CORS workload ---------------------------- *)
CorsAlphabet == {"a", "b", ","}
StringsUpTo(n) == UNION {[1..k -> CorsAlphabet] : k \in 0..n}

\* the origins callers send: none, short strings, "null" and the default origin
Origins ==
  {Absent} \cup {Str(s) : s \in StringsUpTo(MaxOriginLen) \cup {NullOrigin, DefaultOrigin}}
\* the values CORS_ORIGINS is deployed with
CorsEnvs == {EnvUnset} \cup {Str(s) : s \in StringsUpTo(MaxEnvLen) \cup {NullOrigin}}

CorsConfigs ==
  [rlBuild : {"redis"}, nodeEnv : {"production"}, conc : {1}, faults : {{}},
   track : {FALSE}, maxReq : {MaxRequests}, menu : {{}}, corsOrigins : CorsEnvs,
   dbErrors : {{DbError1}}]
InitCors == InitWith(CorsConfigs, {<<>>}, InitRows)
NextCors == \E origin \in Origins : CorsCall(origin)
SpecCors == InitCors /\ [][NextCors]_vars

\* the configured allow-list
AllowList == allowedOrigins(cfg.corsOrigins)
Called == cors.k = "call"
Has(h, v) == h \in DOMAIN cors.headers /\ cors.headers[h] = v
HasBase ==
  /\ Has("Access-Control-Allow-Methods", "GET, POST, PUT, DELETE, OPTIONS")
  /\ Has("Access-Control-Allow-Headers", "Content-Type, Authorization, X-Requested-With")
  /\ Has("Access-Control-Max-Age", "86400")
Echoes(s) ==
  /\ Has("Access-Control-Allow-Origin", Str(s))
  /\ Has("Access-Control-Allow-Credentials", "true")

UrlHome == <<"/">>
UrlLogin == <<"/", "l", "o", "g", "i", "n">>
UrlSignup == <<"/", "s", "i", "g", "n", "u", "p">>
UrlDashboard == <<"/", "d", "a", "s", "h", "b", "o", "a", "r", "d">>
UrlTasks == <<"/", "a", "p", "i", "/", "t", "a", "s", "k", "s">>
UrlTasksNext == <<"/", "a", "p", "i", "/", "t", "a", "s", "k", "s", "?", "n", "e", "x", "t", "=", "/", "l", "o", "g", "i", "n">>
UrlArchive == <<"/", "a", "p", "i", "/", "a", "d", "m", "i", "n", "/", "a", "r", "c", "h", "i", "v", "e", "-", "t", "a", "s", "k", "s">>
Urls == {UrlHome, UrlLogin, UrlSignup, UrlDashboard, UrlTasks, UrlTasksNext, UrlArchive}
Methods == {"GET", "POST", "PUT", "DELETE", "OPTIONS"}
\* the values generateNonce draws
Nonces == {"n1", "n2"}
\* Origin headers: missing, empty, "null", the default origin and a foreign one
OriginHeaders == {Absent, Str(<<>>), Str(NullOrigin), Str(DefaultOrigin), Str(<<"a">>)}

PerimeterConfigs ==
  [rlBuild : {"redis"}, nodeEnv : {"production"}, conc : {1}, faults : {{}},
   track : {FALSE}, maxReq : {MaxRequests}, menu : {{}},
   corsOrigins : {EnvUnset, Str(<<"a">>)},
   dbErrors : {{DbError1}}]
InitPerimeter == InitWith(PerimeterConfigs, {<<>>}, InitRows)
NextPerimeter ==
  \E method \in Methods, url \in Urls, o \in OriginHeaders, nonce \in Nonces :
    Middleware(method, url, o, nonce)
SpecPerimeter == InitPerimeter /\ [][NextPerimeter]_vars

Seen == edge.k = "edge"

(* -------------------------------- C21 ---------------------------------- *)
\* C21: every OPTIONS request, whatever its URL, is answered 204 with only the
\* CORS headers (no nonce, no security header) and is not passed on to a route.
PreflightShortCircuit ==
  (Seen /\ edge.method = "OPTIONS") =>
     /\ edge.status = 204 /\ ~edge.forwarded
     /\ DOMAIN edge.headers \subseteq
          DOMAIN CorsBase \cup {"Access-Control-Allow-Origin",
                               "Access-Control-Allow-Credentials"}
     /\ DOMAIN CorsBase \subseteq DOMAIN edge.headers

(* -------------------------------- C22 ---------------------------------- *)
\* C22: every request other than OPTIONS that passes the perimeter carries the
\* six security headers with their values, and the nonce of the script-src
\* directive is the value of its x-nonce header.
SecurityHeadersEverywhere ==
  (Seen /\ edge.method # "OPTIONS" /\ edge.forwarded) =>
     /\ SecurityHeaderNames \cup {"x-nonce"} \subseteq DOMAIN edge.headers
     /\ edge.headers["X-Content-Type-Options"] = "nosniff"
     /\ edge.headers["Referrer-Policy"] = "no-referrer"
     /\ edge.headers["X-Frame-Options"] = "DENY"
     /\ edge.headers["Strict-Transport-Security"] = "max-age=31536000; includeSubDomains"
     /\ \E i \in DOMAIN edge.headers["Content-Security-Policy"] :
          LET dir == edge.headers["Content-Security-Policy"][i]
          IN  dir.d = "script-src" /\ dir.v.nonce = edge.headers["x-nonce"]

(* --------------------------- logger workload --------------------------- *)
\* a buffer one entry short of its bound, filled by earlier requests
OldEntries(n) ==
  [i \in 1..n |->
     [timestamp |-> 0, level |-> IF i % 2 = 0 THEN "INFO" ELSE "ERROR",
      message |-> "old", userId |-> IF i % 3 = 0 THEN Param(U1) ELSE None]]
LogBuffers == {<<>>, OldEntries(maxLogs - 1)}

LogCalls ==
  { [level |-> "INFO", message |-> "m", userId |-> Param(U1)],
    [level |-> "ERROR", message |-> "m", userId |-> Param(U1)],
    [level |-> "ERROR", message |-> "m", userId |-> None] }

\* the search parameters of a log query; None for a parameter that is not sent
LogQuery(level, userId, startTime, endTime, limit) ==
  [level |-> level, userId |-> userId, startTime |-> startTime,
   endTime |-> endTime, limit |-> limit]
LogQueries ==
  { LogQuery(None, None, None, None, None),
    LogQuery(Param("ERROR"), None, None, None, Param(2)),
    LogQuery(None, Param(U1), None, None, None),
    LogQuery(None, None, Param(TickSec), Param(TickSec), None),
    LogQuery(Param("ERROR"), None, Param(0), Param(TickSec), None),
    LogQuery(Param("ERROR"), Param(U1), Param(0), Param(TickSec), Param(1)) }

LoggerConfigs ==
  [rlBuild : {"redis"}, nodeEnv : {"production"}, conc : {1}, faults : {{}},
   track : {FALSE}, maxReq : {MaxRequests}, menu : {{}}, corsOrigins : {EnvUnset},
   dbErrors : {{DbError1}}]
InitLogger ==
  /\ InitBase(LoggerConfigs, {<<>>}, InitRows)
  /\ logs \in LogBuffers
  /\ logged = [since |-> logs, calls |-> 0]
NextLogger ==
  \/ \E c \in LogCalls : Log(c.level, c.message, c.userId)
  \/ \E q \in LogQueries : LogsGet(q)
  \/ LogsDelete
  \/ Tick
SpecLogger == InitLogger /\ [][NextLogger]_vars

(* -------------------------------- C23 ---------------------------------- *)
\* C23: the buffer never holds more than 1000 entries and is exactly the last
\* min(k, 1000) of the k entries appended since the last clear, in append order.
BufferIsRecentSuffix ==
  /\ Len(logs) <= 1000
  /\ LET k == Len(logged.since)
         m == IF k < 1000 THEN k ELSE 1000
     IN  /\ Len(logs) = m
         /\ \A i \in 1..m : logs[i] = logged.since[k - m + i]

\* the buffer was full and two more entries were appended: the two oldest are gone
OldestEvicted ==
  /\ Len(logged.since) = maxLogs + 2 /\ Len(logs) = maxLogs
  /\ logs[maxLogs].message = "m" /\ logs[1] = logged.since[3]

(* -------------------------------- C29 ---------------------------------- *)
\* C29: a log query returns only entries that satisfy every filter it was given
\* (level, userId, time range), at most limit entries (100 by default), newest
\* first, and leaves the buffer as the appends made it.
LogQueryFilters ==
  (resp.pc = "done" /\ resp.op = "LOGS_GET") =>
     LET q == resp.payload.query
         out == resp.payload.logs
     IN  /\ \A i \in DOMAIN out :
              /\ q.level # None => out[i].level = q.level.v
              /\ q.userId # None => out[i].userId = q.userId
              /\ (q.startTime # None /\ q.endTime # None) =>
                   (out[i].timestamp >= q.startTime.v /\ out[i].timestamp <= q.endTime.v)
         /\ Len(out) <= (IF q.limit # None THEN q.limit.v ELSE 100)
         /\ \A i, j \in DOMAIN out : i < j => out[i].timestamp >= out[j].timestamp
         /\ logs = SliceLast(logged.since, 1000)

(* ----------------------- rate limit key workload ----------------------- *)
\* characters of client addresses: those of a user id, the separator and a digit
IpAlphabet == {"u", "1", ":"}
\* the first piece of x-forwarded-for, or x-real-ip: any non-empty string
ClientIps == UNION {[1..k -> IpAlphabet] : k \in 1..MaxIpLen}

KeyConfigs ==
  [rlBuild : {"redis"}, nodeEnv : {"production"}, conc : {1}, faults : {{}},
   track : {FALSE}, maxReq : {MaxRequests}, menu : {{}}, corsOrigins : {EnvUnset},
   dbErrors : {{DbError1}}]
InitKeys == InitWith(KeyConfigs, {<<>>}, InitRows)
NextKeys == \E userId \in {NoUser, U1}, ip \in ClientIps : KeyCall(userId, ip)
SpecKeys == InitKeys /\ [][NextKeys]_vars

(* -------------------------------- C24 ---------------------------------- *)
\* C24: the key is userId:ip for a known identity and ip alone otherwise, and
\* two calls with different (userId, ip) never yield the same key; in
\* particular an anonymous call never yields the key of an authenticated one.
RateLimitKeysDistinct ==
  [][(rlKey'.k = "call") =>
       /\ rlKey'.key = IF rlKey'.userId # <<>>
                       THEN rlKey'.userId \o <<":">> \o rlKey'.ip ELSE rlKey'.ip
       /\ (rlKey.k = "call" /\ <<rlKey.userId, rlKey.ip>> # <<rlKey'.userId, rlKey'.ip>>)
            => rlKey'.key # rlKey.key]_vars

(* --------------------------- failing database -------------------------- *)
\* one owner using every task route while database calls may fail with either
\* of two error texts
ErrorRequests == RequestsOf({U1}, {T1}, {CreateOk}, {UpdateTitle})
ErrorConfigs ==
  [rlBuild : {"redis"}, nodeEnv : {"production"}, conc : {1},
   faults : {{"db", "archive"}}, track : {FALSE}, maxReq : {MaxWideRequests},
   menu : {ErrorRequests}, corsOrigins : {EnvUnset},
   dbErrors : {{DbError1, DbError2}}]
InitErrors == InitWith(ErrorConfigs, {<<>>}, InitRows)
SpecErrors == InitErrors /\ [][Next]_vars

(* -------------------------------- C25 ---------------------------------- *)
\* C25: on every endpoint a failed database call is answered 500 with a body
\* that holds one fixed message: no field of the body carries the error text
\* of the database.
PersistenceErrorsGeneric ==
  (resp.pc = "done" /\ resp.dbError # "") =>
     /\ resp.status = 500
     /\ DOMAIN resp.json = {"error"}
     /\ \A f \in DOMAIN resp.json : resp.json[f] # resp.dbError

(* ------------------------------ progress ------------------------------- *)
\* the next step of the handler in slot t: the call it awaits returns or fails
HandlerStep(t) ==
  \/ \E f \in FaultChoices("rl") : RateLimit(t, f)
  \/ \E f \in FaultChoices("cacheget") : CacheLookup(t, f)
  \/ \E f \in FaultChoices("db") : \E message \in ErrorChoices(f) : Persist(t, f, message)
  \/ \E f \in FaultChoices("cacheset") : CacheStore(t, f)
  \/ \E f \in FaultChoices("invscan") : InvScan(t, f)
  \/ \E f \in FaultChoices("invdel") : InvDel(t, f)

\* every call of a handler eventually returns or fails
SpecLive == InitPipeline /\ [][Next]_vars /\ \A t \in Threads : WF_vars(HandlerStep(t))

(* -------------------------------- C26 ---------------------------------- *)
\* C26: every request to a task endpoint gets exactly one response, with status
\* 401, 429, 400, 404, 500, 200 or 201: a slot is freed only by sending the
\* response, a failed database call ends in 500, a failed cache or limiter
\* call alone never does, and no request stays in flight for ever.
EveryRequestAnswered ==
  /\ [](Answered =>
          /\ resp.status \in {401, 429, 400, 404, 500, 200, 201}
          /\ "db" \in resp.faults => resp.status = 500
          /\ (resp.status = 500 /\ "db" \notin resp.faults) =>
               resp.body.k \notin {"none", "object"})
  /\ [][\A t \in Threads :
          (th[t].pc # "idle" /\ th'[t].pc = "idle") =>
             (resp'.pc = "done" /\ resp'.id = th[t].id)]_vars
  /\ \A t \in Threads : (th[t].pc # "idle") ~> (th[t].pc = "idle")

\* a request whose limiter call and cache calls failed was answered 200
AnsweredDespiteFaults ==
  /\ Answered /\ resp.status = 200
  /\ {"rl", "cacheget", "cacheset"} \subseteq resp.faults

(* --------------------------- logout workload --------------------------- *)
AppOrigin == <<"h", "t", "t", "p", "s", ":", "/", "/", "a", ".", "i", "o">>
HostLocal == Str(<<"l", "o", "c", "a", "l", "h", "o", "s", "t", ":", "3", "0", "0", "0">>)
HostApp == Str(<<"a", ".", "i", "o">>)
\* request.nextUrl.origin and the host header of the requests sent
LogoutRequests ==
  { [origin |-> DefaultOrigin, host |-> HostLocal],
    [origin |-> AppOrigin, host |-> HostApp] }

LogoutConfigs ==
  [rlBuild : {"redis"}, nodeEnv : {"production"}, conc : {1}, faults : {{}},
   track : {FALSE}, maxReq : {MaxRequests}, menu : {{}}, corsOrigins : {EnvUnset},
   dbErrors : {{DbError1}}]
InitLogout == InitWith(LogoutConfigs, {<<>>}, InitRows)
NextLogout ==
  \/ \E user \in {NoUser, U1}, q \in LogoutRequests, signOutError \in BOOLEAN :
       Logout(user, IP1, q.origin, q.host, signOutError)
  \/ Tick
SpecLogout == InitLogout /\ [][NextLogout]_vars

LoggedOut == signout.last.k = "call"

(* -------------------------------- C27 ---------------------------------- *)
\* C27: logout is limited to 10 requests per 60 s per identifier key: a logout
\* request that follows 10 earlier ones of its key inside the window is denied
\* and performs no sign-out.
LogoutRateLimited ==
  (LoggedOut /\ signout.last.prior >= AuthLimit) =>
     (signout.last.status = 429 /\ ~signout.last.signOutCalled)

(* -------------------------------- C30 ---------------------------------- *)
\* C30: the redirect of a logout is built on the origin of the request:
\* {origin}/login after a sign-out, {origin}/dashboard with the error parameter
\* after a failed one, and never on http://localhost:3000 for a request of
\* another origin.
LogoutRedirectOnRequestOrigin ==
  LoggedOut =>
    /\ signout.last.location =
         signout.last.requestOrigin \o
           (IF signout.last.signOutError THEN S_signOutFailed ELSE S_loginPath)
    /\ signout.last.requestOrigin # DefaultOrigin =>
         ~StartsWith(signout.last.location, DefaultOrigin)

(* -------------------------------- C28 ---------------------------------- *)
\* the cache entries of an owner: the task list and the single tasks
CacheKeyOfOwner(userId, k) ==
  \/ k = getUserTasksKey(userId)
  \/ IsPrefix(S_task \o Colon \o userId \o Colon, k)

\* C28: the invalidation a write of owner U runs deletes cache entries of U
\* only: every other key of the store, the cache entries of other owners and
\* the limiter counters of every identifier included, is left as it was.
InvalidationFrame ==
  [][\A t \in Threads :
       (th[t].pc = "invdel" /\ th'[t].pc = "idle") =>
          \A k \in DOMAIN store :
             ~CacheKeyOfOwner(th[t].user, k) =>
                (k \in DOMAIN store' /\ store'[k] = store[k])]_vars

====
